---- MODULE Spec2Model ----
(***************************************************************************)
(* Model of sinker's "list" command (internal/commands/list.go).           *)
(*                                                                         *)
(* A Go string is a sequence of one-character strings, so that             *)
(* strings.Split, strings.Contains, strings.TrimPrefix and                 *)
(* strings.EqualFold are computed character by character.                  *)
(* A Go panic (index out of range) is the value Panic of a call, and the   *)
(* control state "panic" of a run.                                         *)
(***************************************************************************)
EXTENDS Naturals, Sequences, FiniteSets

VARIABLES
    pc,         \* position of the run inside runListCommand / GetImagesInPath
    yamlFiles,  \* GetImagesInPath: the documents split out of the files read so far
    idx,        \* GetImagesInPath: index of the document the range loop is at (0: loop not entered)
    imageList,  \* GetImagesInPath: raw image strings collected so far
    images,     \* runListCommand: the []DockerImage returned by GetImagesInPath
    err,        \* the error runListCommand returns ("nil" for nil)
    stdout,     \* lines printed by fmt.Println
    file,       \* lines written to the output file
    createErr,  \* whether os.Create failed inside writeListToFile
    fn,         \* unit harness: the function that was called
    arg,        \* unit harness: its argument ([]string)
    ret         \* unit harness: what the call produced

vars == <<pc, yamlFiles, idx, imageList, images, err, stdout, file, createErr, fn, arg, ret>>

runVars == <<pc, yamlFiles, idx, imageList, images, err, stdout, file, createErr>>

fnVars == <<fn, arg, ret>>

(***************************************************************************)
(* Bounds                                                                  *)
(***************************************************************************)
\* documents in one run
MaxDocs == 3
\* atoms concatenated into one input string of the unit harness
MaxAtoms == 5
\* strings in one input list of dedupeImages
MaxList == 3

(***************************************************************************)
(* Results of a call: a value, or a panic                                  *)
(***************************************************************************)
Ok(v) == [panic |-> FALSE, val |-> v]

Panic == [panic |-> TRUE, val |-> <<>>]

(***************************************************************************)
(* package strings                                                         *)
(***************************************************************************)
\* strings.Contains(s, sub)
Contains(s, sub) ==
    \E i \in 0..Len(s) :
        /\ i + Len(sub) <= Len(s)
        /\ SubSeq(s, i + 1, i + Len(sub)) = sub

\* strings.Split(s, sep) for a one-character separator: n separators give n+1 tokens
RECURSIVE Split(_, _)
Split(s, sep) ==
    IF \A i \in 1..Len(s) : s[i] # sep
    THEN <<s>>
    ELSE LET k == CHOOSE i \in 1..Len(s) :
                      s[i] = sep /\ \A j \in 1..(i - 1) : s[j] # sep
         IN  <<SubSeq(s, 1, k - 1)>> \o Split(SubSeq(s, k + 1, Len(s)), sep)

\* strings.TrimPrefix(s, prefix)
TrimPrefix(s, prefix) ==
    IF Len(prefix) <= Len(s) /\ SubSeq(s, 1, Len(prefix)) = prefix
    THEN SubSeq(s, Len(prefix) + 1, Len(s))
    ELSE s

\* the simple case folding of one character of the model's alphabet
Fold(c) ==
    CASE c = "A" -> "a"
      [] c = "B" -> "b"
      [] OTHER -> c

\* strings.EqualFold(a, b)
EqualFold(a, b) ==
    /\ Len(a) = Len(b)
    /\ \A i \in 1..Len(a) : Fold(a[i]) = Fold(b[i])

(***************************************************************************)
(* DockerImage                                                             *)
(***************************************************************************)
\* mutant: the slash after the host is left out
DockerImage_String_NoSlash(d) ==
    (IF d.Host # <<>> THEN d.Host ELSE <<>>) \o d.Repository \o <<":">> \o d.Version

\* func (d DockerImage) String() string
DockerImage_String(d) ==
    (IF d.Host # <<>> THEN d.Host \o <<"/">> ELSE <<>>) \o d.Repository \o <<":">> \o d.Version

\* mutant: ".io" is looked for in the whole path, not in its first segment
marshalImage_HostAnywhere(image) ==
    LET imageTokens == Split(image, ":")
        imagePaths == Split(imageTokens[1], "/")
        imageName == imagePaths[Len(imagePaths)]
        imageHost == IF Contains(imageTokens[1], <<".", "i", "o">>) THEN imagePaths[1] ELSE <<>>
        imageRepository == IF imageHost # <<>>
                           THEN TrimPrefix(imageTokens[1], imageHost \o <<"/">>)
                           ELSE imageTokens[1]
    IN  IF Len(imageTokens) < 2
        THEN Panic
        ELSE Ok([Host |-> imageHost, Repository |-> imageRepository,
                 Name |-> imageName, Version |-> imageTokens[2]])

\* marshalImages, the body of its loop: one raw image string to one DockerImage.
\* Go indexes from 0: imageTokens[0] is imageTokens[1] here, imageTokens[1] is
\* imageTokens[2], which panics when the string holds no ':'.
marshalImage(image) ==
    LET imageTokens == Split(image, ":")
        imagePaths == Split(imageTokens[1], "/")
        imageName == imagePaths[Len(imagePaths)]
        imageHost == IF Contains(imagePaths[1], <<".", "i", "o">>) THEN imagePaths[1] ELSE <<>>
        imageRepository == IF imageHost # <<>>
                           THEN TrimPrefix(imageTokens[1], imageHost \o <<"/">>)
                           ELSE imageTokens[1]
    IN  IF Len(imageTokens) < 2
        THEN Panic
        ELSE Ok([Host |-> imageHost, Repository |-> imageRepository,
                 Name |-> imageName, Version |-> imageTokens[2]])

\* func marshalImages(images []string) []DockerImage
RECURSIVE marshalImages(_)
marshalImages(imgs) ==
    IF imgs = <<>>
    THEN Ok(<<>>)
    ELSE LET head == marshalImage(imgs[1])
             rest == marshalImages(Tail(imgs))
         IN  IF head.panic \/ rest.panic
             THEN Panic
             ELSE Ok(<<head.val>> \o rest.val)

(***************************************************************************)
(* Extraction from containers                                              *)
(***************************************************************************)
\* getImagesFromContainerArgs, the body of its loop for one argument:
\* the images it appends (none when the argument is skipped)
argImage(a) ==
    IF ~Contains(a, <<":">>) \/ Contains(a, <<"=", ":">>)
    THEN Ok(<<>>)
    ELSE LET argTokens == Split(a, "=")
         IN  IF Len(argTokens) < 2 THEN Panic ELSE Ok(<<argTokens[2]>>)

\* func getImagesFromContainerArgs(args []string) []string
RECURSIVE getImagesFromContainerArgs(_)
getImagesFromContainerArgs(args) ==
    IF args = <<>>
    THEN Ok(<<>>)
    ELSE LET head == argImage(args[1])
             rest == getImagesFromContainerArgs(Tail(args))
         IN  IF head.panic \/ rest.panic
             THEN Panic
             ELSE Ok(head.val \o rest.val)

\* mutant: the images found in the arguments come before the image field
RECURSIVE getImagesFromContainers_ArgsFirst(_)
getImagesFromContainers_ArgsFirst(containers) ==
    IF containers = <<>>
    THEN Ok(<<>>)
    ELSE LET argImages == getImagesFromContainerArgs(containers[1].Args)
             rest == getImagesFromContainers_ArgsFirst(Tail(containers))
         IN  IF argImages.panic \/ rest.panic
             THEN Panic
             ELSE Ok(argImages.val \o <<containers[1].Image>> \o rest.val)

\* func getImagesFromContainers(containers []corev1.Container) []string
RECURSIVE getImagesFromContainers(_)
getImagesFromContainers(containers) ==
    IF containers = <<>>
    THEN Ok(<<>>)
    ELSE LET argImages == getImagesFromContainerArgs(containers[1].Args)
             rest == getImagesFromContainers(Tail(containers))
         IN  IF argImages.panic \/ rest.panic
             THEN Panic
             ELSE Ok(<<containers[1].Image>> \o argImages.val \o rest.val)

(***************************************************************************)
(* Deduplication                                                           *)
(***************************************************************************)
\* mutant: the comparison is exact, not case-insensitive
contains_Exact(imgs, image) ==
    \E i \in 1..Len(imgs) : imgs[i] = image

\* func contains(images []string, image string) bool
contains(imgs, image) ==
    \E i \in 1..Len(imgs) : EqualFold(imgs[i], image)

\* mutant: an image is compared with the last one kept only
RECURSIVE dedupeLoop_Adjacent(_, _)
dedupeLoop_Adjacent(imgs, dedupedImageList) ==
    IF imgs = <<>>
    THEN dedupedImageList
    ELSE dedupeLoop_Adjacent(Tail(imgs),
                    IF dedupedImageList = <<>>
                       \/ ~EqualFold(dedupedImageList[Len(dedupedImageList)], imgs[1])
                    THEN Append(dedupedImageList, imgs[1])
                    ELSE dedupedImageList)

\* dedupeImages with its accumulator: the loop over images, dedupedImageList so far
RECURSIVE dedupeLoop(_, _)
dedupeLoop(imgs, dedupedImageList) ==
    IF imgs = <<>>
    THEN dedupedImageList
    ELSE dedupeLoop(Tail(imgs),
                    IF ~contains(dedupedImageList, imgs[1])
                    THEN Append(dedupedImageList, imgs[1])
                    ELSE dedupedImageList)

\* func dedupeImages(images []string) []string
dedupeImages(imgs) == dedupeLoop(imgs, <<>>)

(***************************************************************************)
(* Documents                                                               *)
(*                                                                         *)
(* A document is what the three yaml.Unmarshal calls of GetImagesInPath    *)
(* make of its bytes: whether the TypeMeta parse succeeds and the kind it  *)
(* finds ("" when the document has no kind), whether the structural parse  *)
(* of the whole document succeeds (as promv1.Prometheus,                   *)
(* promv1.Alertmanager or BaseType, whichever the kind selects), and the   *)
(* fields that parse reads.                                                *)
(***************************************************************************)
Container(image, args) == [Image |-> image, Args |-> args]

Doc(kindOk, kind, structOk, baseImage, version, initContainers, containers) ==
    [kindOk |-> kindOk, kind |-> kind, structOk |-> structOk,
     baseImage |-> baseImage, version |-> version,
     InitContainers |-> initContainers, Containers |-> containers]

\* not YAML at all, or a kind that is no string: the TypeMeta parse fails
InvalidDoc == Doc(FALSE, "", FALSE, <<>>, <<>>, <<>>, <<>>)

\* the empty document (doSplit of an empty file): parses, has no kind, no containers
EmptyDoc == Doc(TRUE, "", TRUE, <<>>, <<>>, <<>>, <<>>)

\* a pod template without a kind field, image a:1
NoKindPod == Doc(TRUE, "", TRUE, <<>>, <<>>, <<>>, <<Container(<<"a", ":", "1">>, <<>>)>>)

\* kind: Prometheus, baseImage q.io/p, version 1
PrometheusDoc == Doc(TRUE, "Prometheus", TRUE, <<"q", ".", "i", "o", "/", "p">>, <<"1">>, <<>>, <<>>)

\* kind: Prometheus, spec of the wrong shape
PrometheusBad == Doc(TRUE, "Prometheus", FALSE, <<>>, <<>>, <<>>, <<>>)

\* kind: Alertmanager, baseImage A, version 1
AlertmanagerDoc == Doc(TRUE, "Alertmanager", TRUE, <<"A">>, <<"1">>, <<>>, <<>>)

\* kind: Alertmanager, spec of the wrong shape
AlertmanagerBad == Doc(TRUE, "Alertmanager", FALSE, <<>>, <<>>, <<>>, <<>>)

\* kind: Deployment, init container b:1, containers a:1 (args k=c:2, k=v, k=:v) and B:1
DeploymentDoc ==
    Doc(TRUE, "Deployment", TRUE, <<>>, <<>>,
        <<Container(<<"b", ":", "1">>, <<>>)>>,
        <<Container(<<"a", ":", "1">>,
                    << <<"k", "=", "c", ":", "2">>, <<"k", "=", "v">>, <<"k", "=", ":", "v">> >>),
          Container(<<"B", ":", "1">>, <<>>)>>)

\* kind: Deployment, spec.template of the wrong shape
DeploymentBad == Doc(TRUE, "Deployment", FALSE, <<>>, <<>>, <<>>, <<>>)

\* kind: Deployment, one container whose image has no tag: a
DeploymentNoTag == Doc(TRUE, "Deployment", TRUE, <<>>, <<>>, <<>>, <<Container(<<"a">>, <<>>)>>)

\* kind: Deployment, one container a:1 with the argument a:b (a colon, no equals sign)
DeploymentArgNoEq ==
    Doc(TRUE, "Deployment", TRUE, <<>>, <<>>, <<>>,
        <<Container(<<"a", ":", "1">>, << <<"a", ":", "b">> >>)>>)

\* kind: Deployment, containers a:1:2 and a:1:3 (two colons each)
DeploymentTwoColons ==
    Doc(TRUE, "Deployment", TRUE, <<>>, <<>>, <<>>,
        <<Container(<<"a", ":", "1", ":", "2">>, <<>>),
          Container(<<"a", ":", "1", ":", "3">>, <<>>)>>)

\* kind: Deployment, containers q.io:1 and q.io/q.io:1 (one colon each)
DeploymentHostOnly ==
    Doc(TRUE, "Deployment", TRUE, <<>>, <<>>, <<>>,
        <<Container(<<"q", ".", "i", "o", ":", "1">>, <<>>),
          Container(<<"q", ".", "i", "o", "/", "q", ".", "i", "o", ":", "1">>, <<>>)>>)

DocPool ==
    {InvalidDoc, EmptyDoc, NoKindPod, PrometheusDoc, PrometheusBad, AlertmanagerDoc,
     AlertmanagerBad, DeploymentDoc, DeploymentBad, DeploymentNoTag, DeploymentArgNoEq,
     DeploymentTwoColons, DeploymentHostOnly}

\* what doSplit returns for the content of one file, held here as the chunks between
\* its separator lines: one document, or two
FileContents == {<<d>> : d \in DocPool} \cup {<<d, e>> : d \in DocPool, e \in DocPool}

(***************************************************************************)
(* GetImagesInPath, the body of its range loop                             *)
(***************************************************************************)
Continue(list) == [tag |-> "continue", list |-> list, err |-> "nil"]

Return(e) == [tag |-> "return", list |-> <<>>, err |-> e]

Crash == [tag |-> "panic", list |-> <<>>, err |-> "nil"]

\* both appends of lines 141-147: init containers, then containers
podImages(contents) ==
    LET init == IF Len(contents.InitContainers) > 0
                THEN getImagesFromContainers(contents.InitContainers)
                ELSE Ok(<<>>)
        main == IF Len(contents.Containers) > 0
                THEN getImagesFromContainers(contents.Containers)
                ELSE Ok(<<>>)
    IN  IF init.panic \/ main.panic THEN Panic ELSE Ok(init.val \o main.val)

\* mutant: a failed TypeMeta parse aborts the run
ProcessDocument_KindFatal(yamlFile, list) ==
    IF ~yamlFile.kindOk
    THEN Return("unmarshal typemeta")
    ELSE IF yamlFile.kind = "Prometheus"
    THEN IF ~yamlFile.structOk
         THEN Return("unmarshal prometheus")
         ELSE Continue(Append(list, yamlFile.baseImage \o <<":">> \o yamlFile.version))
    ELSE IF yamlFile.kind = "Alertmanager"
    THEN IF ~yamlFile.structOk
         THEN Return("unmarshal alertmanager")
         ELSE Continue(Append(list, yamlFile.baseImage \o <<":">> \o yamlFile.version))
    ELSE IF ~yamlFile.structOk
    THEN Continue(list)
    ELSE LET found == podImages(yamlFile)
         IN  IF found.panic THEN Crash ELSE Continue(list \o found.val)

\* mutant: an Alertmanager that fails to parse is skipped like a generic document
ProcessDocument_AlertSkip(yamlFile, list) ==
    IF ~yamlFile.kindOk
    THEN Continue(list)
    ELSE IF yamlFile.kind = "Prometheus"
    THEN IF ~yamlFile.structOk
         THEN Return("unmarshal prometheus")
         ELSE Continue(Append(list, yamlFile.baseImage \o <<":">> \o yamlFile.version))
    ELSE IF yamlFile.kind = "Alertmanager"
    THEN IF ~yamlFile.structOk
         THEN Continue(list)
         ELSE Continue(Append(list, yamlFile.baseImage \o <<":">> \o yamlFile.version))
    ELSE IF ~yamlFile.structOk
    THEN Continue(list)
    ELSE LET found == podImages(yamlFile)
         IN  IF found.panic THEN Crash ELSE Continue(list \o found.val)

\* lines 107-148 for one document: continue with the grown list, return an error, or panic
ProcessDocument(yamlFile, list) ==
    IF ~yamlFile.kindOk
    THEN Continue(list)
    ELSE IF yamlFile.kind = "Prometheus"
    THEN IF ~yamlFile.structOk
         THEN Return("unmarshal prometheus")
         ELSE Continue(Append(list, yamlFile.baseImage \o <<":">> \o yamlFile.version))
    ELSE IF yamlFile.kind = "Alertmanager"
    THEN IF ~yamlFile.structOk
         THEN Return("unmarshal alertmanager")
         ELSE Continue(Append(list, yamlFile.baseImage \o <<":">> \o yamlFile.version))
    ELSE IF ~yamlFile.structOk
    THEN Continue(list)
    ELSE LET found == podImages(yamlFile)
         IN  IF found.panic THEN Crash ELSE Continue(list \o found.val)

\* the lines printed for a list of images: fmt.Println / fmt.Fprintln of each
Lines(imgs) == [i \in 1..Len(imgs) |-> DockerImage_String(imgs[i])]

(***************************************************************************)
(* The run of the list command                                             *)
(***************************************************************************)
Init ==
    /\ pc = "start"
    /\ yamlFiles = <<>>
    /\ idx = 0
    /\ imageList = <<>>
    /\ images = <<>>
    /\ err = "nil"
    /\ stdout = <<>>
    /\ file = <<>>
    /\ createErr = FALSE
    /\ fn = "none"
    /\ arg = <<>>
    /\ ret = Ok(<<>>)

\* runListCommand, lines 64-67: os.Getwd
Getwd ==
    /\ pc = "start"
    /\ \E ok \in BOOLEAN :
          IF ok
          THEN pc' = "getYamlFiles" /\ err' = err
          ELSE pc' = "exit" /\ err' = "get working dir"
    /\ UNCHANGED <<yamlFiles, idx, imageList, images, stdout, file, createErr>>
    /\ UNCHANGED fnVars

\* GetImagesInPath, lines 88-91: the walk succeeds or fails
getYamlFiles ==
    /\ pc = "getYamlFiles"
    /\ \E ok \in BOOLEAN :
          IF ok
          THEN pc' = "splitYamlFiles" /\ err' = err
          ELSE pc' = "exit" /\ err' = "get images from path: get yaml files"
    /\ UNCHANGED <<yamlFiles, idx, imageList, images, stdout, file, createErr>>
    /\ UNCHANGED fnVars

\* splitYamlFiles, one turn of its loop: read the next file and split it
ReadFile ==
    /\ pc = "splitYamlFiles"
    /\ \E ok \in BOOLEAN, individualYamlFiles \in FileContents :
          IF ok
          THEN /\ Len(yamlFiles) + Len(individualYamlFiles) <= MaxDocs
               /\ yamlFiles' = yamlFiles \o individualYamlFiles
               /\ pc' = pc
               /\ err' = err
          ELSE /\ pc' = "exit"
               /\ err' = "get images from path: split yaml files: open file"
               /\ yamlFiles' = yamlFiles
    /\ UNCHANGED <<idx, imageList, images, stdout, file, createErr>>
    /\ UNCHANGED fnVars

\* splitYamlFiles returns: no file is left
splitYamlFiles ==
    /\ pc = "splitYamlFiles"
    /\ pc' = "loop"
    /\ idx' = 1
    /\ UNCHANGED <<yamlFiles, imageList, images, err, stdout, file, createErr>>
    /\ UNCHANGED fnVars

\* GetImagesInPath, lines 107-148: one turn of the range loop
ProcessDoc ==
    /\ pc = "loop"
    /\ idx <= Len(yamlFiles)
    /\ LET r == ProcessDocument(yamlFiles[idx], imageList)
       IN  CASE r.tag = "continue" ->
                  /\ imageList' = r.list
                  /\ idx' = idx + 1
                  /\ UNCHANGED <<pc, err>>
             [] r.tag = "return" ->
                  /\ pc' = "exit"
                  /\ err' = "get images from path: " \o r.err
                  /\ UNCHANGED <<imageList, idx>>
             [] r.tag = "panic" ->
                  /\ pc' = "panic"
                  /\ UNCHANGED <<imageList, idx, err>>
    /\ UNCHANGED <<yamlFiles, images, stdout, file, createErr>>
    /\ UNCHANGED fnVars

\* GetImagesInPath, lines 150-154: dedupe, marshal, return
Marshal ==
    /\ pc = "loop"
    /\ idx > Len(yamlFiles)
    /\ LET marshaledImages == marshalImages(dedupeImages(imageList))
       IN  IF marshaledImages.panic
           THEN pc' = "panic" /\ images' = images
           ELSE pc' = "output" /\ images' = marshaledImages.val
    /\ UNCHANGED <<yamlFiles, idx, imageList, err, stdout, file, createErr>>
    /\ UNCHANGED fnVars

\* runListCommand, lines 75-84: the file (writeListToFile, its error dropped) or stdout
Output ==
    /\ pc = "output"
    /\ \E output \in {"", "out"}, created \in BOOLEAN :
          IF output # ""
          THEN /\ createErr' = ~created
               /\ file' = IF created THEN Lines(images) ELSE file
               /\ stdout' = stdout
          ELSE /\ stdout' = Lines(images)
               /\ UNCHANGED <<file, createErr>>
    /\ pc' = "exit"
    /\ err' = "nil"
    /\ UNCHANGED <<yamlFiles, idx, imageList, images>>
    /\ UNCHANGED fnVars

Next ==
    \/ Getwd
    \/ getYamlFiles
    \/ ReadFile
    \/ splitYamlFiles
    \/ ProcessDoc
    \/ Marshal
    \/ Output

Spec == Init /\ [][Next]_vars

(***************************************************************************)
(* GetImagesInPath as a function of the documents it loops over            *)
(***************************************************************************)
RECURSIVE rangeLoop(_, _)
rangeLoop(docs, list) ==
    IF docs = <<>>
    THEN LET marshaledImages == marshalImages(dedupeImages(list))
         IN  IF marshaledImages.panic
             THEN [tag |-> "panic", err |-> "nil", images |-> <<>>]
             ELSE [tag |-> "list", err |-> "nil", images |-> marshaledImages.val]
    ELSE LET r == ProcessDocument(docs[1], list)
         IN  CASE r.tag = "continue" -> rangeLoop(Tail(docs), r.list)
               [] r.tag = "return" ->
                    [tag |-> "error", err |-> "get images from path: " \o r.err, images |-> <<>>]
               [] r.tag = "panic" -> [tag |-> "panic", err |-> "nil", images |-> <<>>]

\* func GetImagesInPath, lines 106-154, for the documents splitYamlFiles returned
GetImagesInPath(docs) == rangeLoop(docs, <<>>)

(***************************************************************************)
(* Unit harness: one call of marshalImages (and then String on each        *)
(* image), of getImagesFromContainerArgs or of dedupeImages                *)
(***************************************************************************)
Atoms == {<<"a">>, <<"A">>, <<".", "i", "o">>, <<":">>, <<"/">>, <<"=">>}

\* every concatenation of at most n atoms
RECURSIVE AtomStrings(_)
AtomStrings(n) ==
    IF n = 0
    THEN {<<>>}
    ELSE LET S == AtomStrings(n - 1)
         IN  S \cup {s \o a : s \in S, a \in Atoms}

\* image strings that differ in case only, or not only
CasePool ==
    {<<"a", ":", "1">>, <<"A", ":", "1">>, <<"b", ":", "1">>,
     <<"a", ":", "b">>, <<"a", ":", "B">>, <<"A", ":", "b">>}

\* every list of at most n strings of P
RECURSIVE ListsOf(_, _)
ListsOf(P, n) ==
    IF n = 0
    THEN {<<>>}
    ELSE LET L == ListsOf(P, n - 1)
         IN  L \cup {Append(l, s) : l \in L, s \in P}

FnInputs == {<<s>> : s \in AtomStrings(MaxAtoms)} \cup ListsOf(CasePool, MaxList)

InitFn ==
    /\ fn = "none"
    /\ arg \in FnInputs
    /\ ret = Ok(<<>>)
    /\ pc = "unit"
    /\ yamlFiles = <<>>
    /\ idx = 0
    /\ imageList = <<>>
    /\ images = <<>>
    /\ err = "nil"
    /\ stdout = <<>>
    /\ file = <<>>
    /\ createErr = FALSE

CallMarshalImages ==
    /\ fn = "none"
    /\ fn' = "marshalImages"
    /\ ret' = marshalImages(arg)
    /\ UNCHANGED arg
    /\ UNCHANGED runVars

\* fmt.Println(image) calls String() on each image marshalImages returned
CallString ==
    /\ fn = "marshalImages"
    /\ ~ret.panic
    /\ fn' = "String"
    /\ ret' = Ok(Lines(ret.val))
    /\ UNCHANGED arg
    /\ UNCHANGED runVars

CallGetImagesFromContainerArgs ==
    /\ fn = "none"
    /\ fn' = "getImagesFromContainerArgs"
    /\ ret' = getImagesFromContainerArgs(arg)
    /\ UNCHANGED arg
    /\ UNCHANGED runVars

CallDedupeImages ==
    /\ fn = "none"
    /\ fn' = "dedupeImages"
    /\ ret' = Ok(dedupeImages(arg))
    /\ UNCHANGED arg
    /\ UNCHANGED runVars

NextFn ==
    \/ CallMarshalImages
    \/ CallString
    \/ CallGetImagesFromContainerArgs
    \/ CallDedupeImages

SpecFn == InitFn /\ [][NextFn]_vars

(***************************************************************************)
(* Vocabulary of the properties                                            *)
(***************************************************************************)
\* position of the first / last c in s, 0 when s holds no c
FirstPos(s, c) ==
    IF \E i \in 1..Len(s) : s[i] = c
    THEN CHOOSE i \in 1..Len(s) : s[i] = c /\ \A j \in 1..Len(s) : s[j] = c => i <= j
    ELSE 0

LastPos(s, c) ==
    IF \E i \in 1..Len(s) : s[i] = c
    THEN CHOOSE i \in 1..Len(s) : s[i] = c /\ \A j \in 1..Len(s) : s[j] = c => j <= i
    ELSE 0

Count(s, c) == Cardinality({i \in 1..Len(s) : s[i] = c})

Before(s, k) == SubSeq(s, 1, k - 1)

After(s, k) == SubSeq(s, k + 1, Len(s))

\* the elements of s at the positions in I, in their order in s
RECURSIVE KeepFrom(_, _, _)
KeepFrom(s, I, i) ==
    IF i > Len(s)
    THEN <<>>
    ELSE (IF i \in I THEN <<s[i]>> ELSE <<>>) \o KeepFrom(s, I, i + 1)

\* the positions of s whose string equals, ignoring case, no earlier one
FirstOccurrences(s) ==
    {i \in 1..Len(s) : \A j \in 1..(i - 1) : ~EqualFold(s[j], s[i])}

PairwiseDistinctFold(s) ==
    \A i, j \in 1..Len(s) : i # j => ~EqualFold(s[i], s[j])

\* d is the image whose path is remainder and whose tag is tag
ParsedAs(d, remainder, tag) ==
    LET slash == FirstPos(remainder, "/")
        first == IF slash = 0 THEN remainder ELSE Before(remainder, slash)
        last == After(remainder, LastPos(remainder, "/"))
        host == IF Contains(first, <<".", "i", "o">>) THEN first ELSE <<>>
        prefix == host \o <<"/">>
    IN  /\ d.Version = tag
        /\ d.Name = last
        /\ d.Host = host
        /\ d.Repository = IF host # <<>> /\ Len(prefix) <= Len(remainder)
                             /\ Before(remainder, Len(prefix) + 1) = prefix
                          THEN After(remainder, Len(prefix))
                          ELSE remainder

\* GetImagesInPath has returned or panicked
Ended == idx >= 1 /\ pc \in {"output", "exit", "panic"}

\* GetImagesInPath has returned a list
Listed == idx >= 1 /\ err = "nil" /\ pc \in {"output", "exit"}

Outcome ==
    [tag |-> IF pc = "panic" THEN "panic" ELSE IF err # "nil" THEN "error" ELSE "list",
     err |-> err, images |-> images]

(***************************************************************************)
(* C1                                                                      *)
(***************************************************************************)
\* C1: when the run has ended and the output file could not be created,
\* runListCommand has returned a non-nil error.
C1_CreateFailureIsAnError == (pc = "exit" /\ createErr) => err # "nil"

(***************************************************************************)
(* C2                                                                      *)
(***************************************************************************)
FatalParse(d) == d.kindOk /\ d.kind \in {"Prometheus", "Alertmanager"} /\ ~d.structOk

\* C2: the range loop never moves past a Prometheus or Alertmanager document whose
\* structural parse fails; once it has processed one, the run has ended with the
\* unmarshal error, without an image list, and with nothing printed or written,
\* whatever was collected before.
C2_FatalParseAborts ==
    \A i \in 1..Len(yamlFiles) :
        FatalParse(yamlFiles[i]) =>
            /\ idx <= i
            /\ (idx = i /\ pc # "loop") =>
                  /\ pc = "exit"
                  /\ err \in {"get images from path: unmarshal prometheus",
                              "get images from path: unmarshal alertmanager"}
                  /\ images = <<>>
                  /\ stdout = <<>>
                  /\ file = <<>>

\* a failing Alertmanager ended the run after images were collected, a document left unread
C2_Witness ==
    /\ pc = "exit"
    /\ err = "get images from path: unmarshal alertmanager"
    /\ imageList # <<>>
    /\ idx < Len(yamlFiles)

(***************************************************************************)
(* C3                                                                      *)
(***************************************************************************)
Generic(d) == d.kindOk /\ d.kind \notin {"Prometheus", "Alertmanager"}

\* the documents the code skips: the TypeMeta parse fails, or the generic parse fails
Skipped(d) == ~d.kindOk \/ (Generic(d) /\ ~d.structOk)

\* the documents C3 as stated calls skipped: also those that have no kind
SkippedOrNoKind(d) == Skipped(d) \/ (d.kindOk /\ d.kind = "")

NotSkipped(d) == ~Skipped(d)

NotSkippedOrNoKind(d) == ~SkippedOrNoKind(d)

\* C3 as stated: the run ends as it would without the documents whose kind is
\* unparseable or missing and without the generic documents that fail to parse.
C3_UnparseableOrMissingKindIsAbsent ==
    Ended => Outcome = GetImagesInPath(SelectSeq(yamlFiles, NotSkippedOrNoKind))

\* C3 amended: the run ends (list, error or panic) as it would without the documents
\* whose TypeMeta parse fails and without the generic documents that fail to parse.
C3_SkippedIsAbsent ==
    Ended => Outcome = GetImagesInPath(SelectSeq(yamlFiles, NotSkipped))

\* both kinds of skipped document between a Deployment and a Prometheus, both listed
C3_Witness ==
    /\ pc = "exit"
    /\ err = "nil"
    /\ yamlFiles \in {<<DeploymentDoc, InvalidDoc, PrometheusDoc>>,
                      <<DeploymentDoc, DeploymentBad, PrometheusDoc>>}
    /\ Len(images) = 4
    /\ stdout = Lines(images)

(***************************************************************************)
(* C4                                                                      *)
(***************************************************************************)
\* C4: dedupeImages returns the subsequence of the first occurrences under
\* case-insensitive comparison: no two results are equal ignoring case, every input
\* equals some result ignoring case, and the results are the inputs at the positions
\* of the first occurrences, in input order and with their casing.
C4_DedupeFirstOccurrences ==
    fn = "dedupeImages" =>
        /\ PairwiseDistinctFold(ret.val)
        /\ \A i \in 1..Len(arg) : \E j \in 1..Len(ret.val) : EqualFold(arg[i], ret.val[j])
        /\ ret.val = KeepFrom(arg, FirstOccurrences(arg), 1)

C4_Witness ==
    /\ fn = "dedupeImages"
    /\ arg = << <<"a", ":", "1">>, <<"b", ":", "1">>, <<"A", ":", "1">> >>
    /\ ret.val = << <<"a", ":", "1">>, <<"b", ":", "1">> >>

(***************************************************************************)
(* C5                                                                      *)
(***************************************************************************)
Qualifies(a) == Contains(a, <<":">>) /\ ~Contains(a, <<"=", ":">>)

\* C5: for one argument, getImagesFromContainerArgs emits an image exactly when the
\* argument holds ':' and not '=:', and the image is all of the argument after its
\* first '='.
C5_ArgImageIsAllAfterFirstEquals ==
    (fn = "getImagesFromContainerArgs" /\ Len(arg) = 1) =>
        /\ ~ret.panic
        /\ (ret.val # <<>>) <=> Qualifies(arg[1])
        /\ Qualifies(arg[1]) => ret.val = <<After(arg[1], FirstPos(arg[1], "="))>>

(***************************************************************************)
(* C6                                                                      *)
(***************************************************************************)
\* C6 as stated: for a string with a ':', the tag is the text after the last ':',
\* and name, host and repository come from the text before the last ':'.
C6_SplitAtLastColon ==
    (fn = "marshalImages" /\ Len(arg) = 1 /\ Contains(arg[1], <<":">>)) =>
        /\ ~ret.panic
        /\ ParsedAs(ret.val[1], Before(arg[1], LastPos(arg[1], ":")),
                    After(arg[1], LastPos(arg[1], ":")))

\* C6 amended: for a string with a ':', the tag is the text between the first ':'
\* and the next ':' (or the end), and name, host and repository come from the text
\* before the first ':'.
C6_SplitAtFirstColon ==
    (fn = "marshalImages" /\ Len(arg) = 1 /\ Contains(arg[1], <<":">>)) =>
        LET rest == After(arg[1], FirstPos(arg[1], ":"))
            next == FirstPos(rest, ":")
        IN  /\ ~ret.panic
            /\ ParsedAs(ret.val[1], Before(arg[1], FirstPos(arg[1], ":")),
                        IF next = 0 THEN rest ELSE Before(rest, next))

\* .io/a:A is parsed: host .io, repository a, name a, tag A
C6_Witness ==
    /\ fn = "marshalImages"
    /\ arg = << <<".", "i", "o", "/", "a", ":", "A">> >>
    /\ ret.val = <<[Host |-> <<".", "i", "o">>, Repository |-> <<"a">>,
                    Name |-> <<"a">>, Version |-> <<"A">>]>>

(***************************************************************************)
(* C7                                                                      *)
(***************************************************************************)
\* the strings the round trip reproduces: one ':', and a '/' before it when the
\* text before it holds ".io"
OneColonHostSlash(s) ==
    /\ Count(s, ":") = 1
    /\ LET remainder == Before(s, FirstPos(s, ":"))
       IN  Contains(remainder, <<".", "i", "o">>) => Contains(remainder, <<"/">>)

\* C7 as stated: for a string with a ':' and a '/', marshalImages and then String()
\* give the string back.
C7_RoundTrip ==
    (fn = "String" /\ Len(arg) = 1 /\ Contains(arg[1], <<":">>) /\ Contains(arg[1], <<"/">>))
        => ret.val = arg

\* C7 amended: for a string with a ':' and a '/', marshalImages and then String()
\* give the string back exactly when it holds one ':' only and, if the text before
\* the ':' holds ".io", a '/' before the ':'.
C7_RoundTripOneColon ==
    (fn = "String" /\ Len(arg) = 1 /\ Contains(arg[1], <<":">>) /\ Contains(arg[1], <<"/">>))
        => (ret.val = arg <=> OneColonHostSlash(arg[1]))

\* .io/a:a went through marshalImages and String() and came back
C7_Witness ==
    /\ fn = "String"
    /\ arg = << <<".", "i", "o", "/", "a", ":", "a">> >>
    /\ ret.val = arg

(***************************************************************************)
(* C8                                                                      *)
(***************************************************************************)
\* what one container emits: its image, then the images of its arguments
RECURSIVE InListedOrder(_)
InListedOrder(containers) ==
    IF containers = <<>>
    THEN <<>>
    ELSE <<containers[1].Image>> \o getImagesFromContainerArgs(containers[1].Args).val
            \o InListedOrder(Tail(containers))

\* what one document emits
Emitted(d) ==
    IF Generic(d) /\ d.structOk
    THEN InListedOrder(d.InitContainers) \o InListedOrder(d.Containers)
    ELSE IF d.kindOk /\ ~Generic(d) /\ d.structOk
    THEN <<d.baseImage \o <<":">> \o d.version>>
    ELSE <<>>

RECURSIVE EmittedByAll(_)
EmittedByAll(docs) ==
    IF docs = <<>> THEN <<>> ELSE Emitted(docs[1]) \o EmittedByAll(Tail(docs))

\* C8: the raw images are those of the documents processed so far, in document
\* order, each generic document giving its init containers and then its containers
\* in listed order, each container its image and then its argument images; the list
\* returned, and the lines printed or written, are the first occurrences in that order.
C8_EmittedInOrder ==
    /\ idx >= 1 => imageList = EmittedByAll(SubSeq(yamlFiles, 1, idx - 1))
    /\ Listed =>
          LET firsts == KeepFrom(imageList, FirstOccurrences(imageList), 1)
          IN  /\ Len(images) = Len(firsts)
              /\ \A k \in 1..Len(firsts) : Ok(images[k]) = marshalImage(firsts[k])
              /\ (pc = "exit" /\ ~createErr) =>
                    \/ stdout = Lines(images) /\ file = <<>>
                    \/ file = Lines(images) /\ stdout = <<>>

\* the Deployment then the Alertmanager: b:1, a:1, c:2, B:1, A:1 collected; b:1, a:1, c:2 written
C8_Witness ==
    /\ pc = "exit"
    /\ yamlFiles = <<DeploymentDoc, AlertmanagerDoc>>
    /\ imageList = << <<"b", ":", "1">>, <<"a", ":", "1">>, <<"c", ":", "2">>,
                      <<"B", ":", "1">>, <<"A", ":", "1">> >>
    /\ file = << <<"b", ":", "1">>, <<"a", ":", "1">>, <<"c", ":", "2">> >>

(***************************************************************************)
(* C9                                                                      *)
(***************************************************************************)
\* C9: no run reaches an index out of range, in marshalImages or in
\* getImagesFromContainerArgs.
C9_NeverPanics == pc # "panic"

(***************************************************************************)
(* C10                                                                     *)
(***************************************************************************)
\* C10 as stated: no two lines of the list returned are equal ignoring case.
C10_LinesDistinct == Listed => PairwiseDistinctFold(Lines(images))

\* C10 amended: no two lines of the list returned are equal ignoring case, provided
\* every deduplicated raw image holds one ':' only and, if the text before the ':'
\* holds ".io", a '/' before the ':'.
C10_LinesDistinctOneColon ==
    (Listed /\ \A i \in 1..Len(imageList) : OneColonHostSlash(imageList[i]))
        => PairwiseDistinctFold(Lines(images))

\* a:1, c:2, B:1, A:1, q.io/p:1 collected in several cases; four distinct lines printed
C10_Witness ==
    /\ pc = "exit"
    /\ err = "nil"
    /\ yamlFiles = <<DeploymentDoc, AlertmanagerDoc, PrometheusDoc>>
    /\ Len(imageList) = 6
    /\ Len(stdout) = 4
    /\ PairwiseDistinctFold(stdout)

====
